---- MODULE Spec2Model ----
(***************************************************************************)
(* GitHub-Graph-Commit-Times: the command-line driver, the paginated       *)
(* fetchers and the hourly aggregator, as a state machine.                 *)
(*                                                                         *)
(* Two builds of the program are in the repository: main.go (paginated     *)
(* fetch, --repo, SVG output) and the earlier single-request build         *)
(* (src/unnamed/part_003: one request per fetch, PNG output).  The         *)
(* variable build says which one a run executes.                           *)
(***************************************************************************)
EXTENDS Integers, Sequences, FiniteSets, TLC

VARIABLES
    build,          \* "main" (src/main.go) or "part_003" (src/unnamed/part_003)
    helpFlag,       \* *helpFlag after flag.Parse
    userFilter,     \* --user
    repoFilter,     \* --repo, a string as a tuple of characters
    repoArgs,       \* flag.Args(): the positional tokens
    token,          \* os.Getenv("GITHUB_TOKEN")
    pc,             \* position of main
    exitStatus,     \* Running, or the status the process exited with
    out,            \* the diagnostics printed: usage text, errors, "Graph saved"
    hourlyCommits,  \* main's running histogram
    argIdx,         \* index of the positional token the loop is at
    repos,          \* the list fetchUserRepos returned for the current account
    repoIdx,        \* index in repos the inner loop is at
    caller,         \* which call site of fetchCommits is active
    target,         \* [owner, repo] of the active fetch (repo = <<>> for an account)
    remote,         \* the remote API's pages for the active fetch
    optPage,        \* opt.Page of the active fetch
    all,            \* allCommits / allRepos of the active fetch
    reqs,           \* page numbers requested by the active fetch, in order
    ret,            \* what the last fetch returned: [val, err]
    netCalls,       \* history: number of API requests issued in the run
    failed,         \* history: some API request of the run has failed
    servedRepos,    \* history: the records the API returned in the current
                    \* account enumeration, over all its pages
    fetchedTotal,   \* history: the sum of processCommits(commits, userFilter)
                    \* over the commit lists fetchCommits has returned
    requested,      \* history: the positions of the positional tokens an
                    \* API request has been issued for
    chart,          \* the chart file written, or NoChart
    renders,        \* number of times generateGraph was entered
    agg             \* the aggregator's harness (specification SpecAgg)

vars == <<build, helpFlag, userFilter, repoFilter, repoArgs, token, pc,
          exitStatus, out, hourlyCommits, argIdx, repos, repoIdx, caller,
          target, remote, optPage, all, reqs, ret, netCalls, failed, servedRepos,
          fetchedTotal, requested, chart, renders, agg>>

inputs == <<build, helpFlag, userFilter, repoFilter, repoArgs, token>>

-----------------------------------------------------------------------------
(* Bounds of the model. *)

\* positional tokens on the command line
MaxArgs == 2
\* pages the remote API serves for one listing
MaxPages == 2
\* commits in each of the two sequences the aggregator harness is given
MaxLen == 2

-----------------------------------------------------------------------------
(* Values. *)

Hours == 0 .. 23

\* a nil pointer
Nil == [nil |-> TRUE]

\* err == nil
NoErr == "nil"

Running == -1

NoChart == [file |-> "none"]

\* time.Time{}: the zero instant, in UTC
ZeroTime == [sec |-> 0, off |-> 0]

\* the hours elapsed since the zero instant, not reduced to the hour of day
HoursSinceZero(t) == (t.sec + t.off) \div 3600

\* time.Time.Hour(): the hour of day in the timestamp's own zone
Hour(t) == ((t.sec + t.off) \div 3600) % 24

\* CommitAuthor.GetDate(): the zero time when the Date pointer is nil
GetDate(committer) == IF committer.Date = Nil THEN ZeroTime ELSE committer.Date

GetName(committer) == committer.Name

GetEmail(committer) == committer.Email

\* [24]int{}
ZeroHist == [hour \in Hours |-> 0]

Author(name, email, date) == [Name |-> name, Email |-> email, Date |-> date]

RC(committer) == [Commit |-> [Committer |-> committer]]

\* sample timestamps: 09:00:05 UTC; 23:59 UTC of the next day in zone +02:00
\* (hour 1); 00:30 UTC in zone -01:00 of the day after (hour 23)
T9 == [sec |-> 9 * 3600 + 5, off |-> 0]
T1 == [sec |-> 86400 + 23 * 3600 + 59 * 60, off |-> 7200]
T23 == [sec |-> 2 * 86400 + 1800, off |-> -3600]

cNoCommit == [Commit |-> Nil]
cNoCommitter == RC(Nil)
cAlice == RC(Author("alice", "alice@example.com", T9))
cBob == RC(Author("bob", "bob@example.com", T1))
cUpper == RC(Author("Alice", "ALICE@example.com", T23))
cNoDate == RC(Author("alice", "", Nil))

\* the commits the aggregator harness draws from
Commits == {cNoCommit, cNoCommitter, cAlice, cBob, cUpper, cNoDate}

\* the pages of commits the remote API serves in a run of the driver
CommitPages == {<<>>, <<cAlice>>, <<cNoCommitter, cBob>>}

Filters == {"", "alice", "alice@example.com", "bob"}

\* the --user values of a run of the driver
RunFilters == {"", "alice"}

Errors == {"404 Not Found", "403 rate limit"}

\* strings that are split: tuples of characters
sUser == <<"u">>
sOwnerRepo == <<"o", "/", "r">>
sThree == <<"a", "/", "b", "/", "c">>
sSlash == <<"/">>

Tokens == {sUser, sOwnerRepo, sThree, sSlash}

RepoFilters == {<<>>, sOwnerRepo, sUser}

Repo(name, fork) == [Name |-> name, Fork |-> fork]

rOne == Repo(<<"r", "1">>, FALSE)
fOne == Repo(<<"f", "1">>, TRUE)
fTwo == Repo(<<"f", "2">>, TRUE)
rTwo == Repo(<<"r", "2">>, FALSE)

\* the pages of repositories the remote API serves in a run of the driver
RepoPages == {<<fOne, rOne>>, <<fTwo>>, <<rTwo>>}

SeqsUpTo(S, n) == UNION {[1 .. k -> S] : k \in 0 .. n}

\* the listings the remote API can hold: 1..MaxPages pages, each one of Pages,
\* no page twice (a commit has one hash, a repository of an account one name)
Listings(Pages) ==
    {l \in UNION {[1 .. k -> Pages] : k \in 1 .. MaxPages} :
        \A i, j \in 1 .. Len(l) : l[i] = l[j] => i = j}

-----------------------------------------------------------------------------
(* Pure functions of the program. *)

\* strings.Contains(s, "/")
Contains(s) == \E i \in 1 .. Len(s) : s[i] = "/"

RECURSIVE SplitFrom(_, _, _)
SplitFrom(s, i, cur) ==
    IF i > Len(s) THEN <<cur>>
    ELSE IF s[i] = "/" THEN <<cur>> \o SplitFrom(s, i + 1, <<>>)
    ELSE SplitFrom(s, i + 1, Append(cur, s[i]))

\* strings.Split(s, "/")
Split(s) == SplitFrom(s, 1, <<>>)

RECURSIVE processFrom(_, _, _, _)
RECURSIVE processCountingNil(_, _, _, _)
RECURSIVE processSetting(_, _, _, _)
RECURSIVE processBothFields(_, _, _, _)
RECURSIVE processSkippingNoDate(_, _, _, _)

\* the committer the nil-safe getters see
Seen(commit) ==
    IF commit.Commit = Nil \/ commit.Commit.Committer = Nil
    THEN Author("", "", Nil)
    ELSE commit.Commit.Committer

\* processCommits without the skip of a commit that has no committer metadata
processCountingNil(commits, usernameFilter, i, hist) ==
    IF i > Len(commits) THEN hist
    ELSE LET committer == Seen(commits[i]) IN
        IF /\ usernameFilter # ""
           /\ GetName(committer) # usernameFilter
           /\ GetEmail(committer) # usernameFilter
        THEN processCountingNil(commits, usernameFilter, i + 1, hist)
        ELSE processCountingNil(commits, usernameFilter, i + 1,
                                [hist EXCEPT ![Hour(GetDate(committer))] = @ + 1])

processCommitsCountingNil(commits, usernameFilter) ==
    processCountingNil(commits, usernameFilter, 1, ZeroHist)

\* processCommits with hourlyCommits[hour] = 1 in place of hourlyCommits[hour]++
processSetting(commits, usernameFilter, i, hist) ==
    IF i > Len(commits) THEN hist
    ELSE LET commit == commits[i] IN
        IF commit.Commit = Nil \/ commit.Commit.Committer = Nil
        THEN processSetting(commits, usernameFilter, i + 1, hist)
        ELSE IF /\ usernameFilter # ""
                /\ GetName(commit.Commit.Committer) # usernameFilter
                /\ GetEmail(commit.Commit.Committer) # usernameFilter
        THEN processSetting(commits, usernameFilter, i + 1, hist)
        ELSE processSetting(commits, usernameFilter, i + 1,
                            [hist EXCEPT ![Hour(GetDate(commit.Commit.Committer))] = 1])

processCommitsSetting(commits, usernameFilter) ==
    processSetting(commits, usernameFilter, 1, ZeroHist)

\* processCommits with || in place of && between the two field comparisons
processBothFields(commits, usernameFilter, i, hist) ==
    IF i > Len(commits) THEN hist
    ELSE LET commit == commits[i] IN
        IF commit.Commit = Nil \/ commit.Commit.Committer = Nil
        THEN processBothFields(commits, usernameFilter, i + 1, hist)
        ELSE IF /\ usernameFilter # ""
                /\ \/ GetName(commit.Commit.Committer) # usernameFilter
                   \/ GetEmail(commit.Commit.Committer) # usernameFilter
        THEN processBothFields(commits, usernameFilter, i + 1, hist)
        ELSE processBothFields(commits, usernameFilter, i + 1,
                               [hist EXCEPT ![Hour(GetDate(commit.Commit.Committer))] = @ + 1])

processCommitsBothFields(commits, usernameFilter) ==
    processBothFields(commits, usernameFilter, 1, ZeroHist)

\* processCommits that also skips a commit whose committer has no Date
processSkippingNoDate(commits, usernameFilter, i, hist) ==
    IF i > Len(commits) THEN hist
    ELSE LET commit == commits[i] IN
        IF commit.Commit = Nil \/ commit.Commit.Committer = Nil
        THEN processSkippingNoDate(commits, usernameFilter, i + 1, hist)
        ELSE IF commit.Commit.Committer.Date = Nil
        THEN processSkippingNoDate(commits, usernameFilter, i + 1, hist)
        ELSE IF /\ usernameFilter # ""
                /\ GetName(commit.Commit.Committer) # usernameFilter
                /\ GetEmail(commit.Commit.Committer) # usernameFilter
        THEN processSkippingNoDate(commits, usernameFilter, i + 1, hist)
        ELSE processSkippingNoDate(commits, usernameFilter, i + 1,
                                   [hist EXCEPT ![Hour(GetDate(commit.Commit.Committer))] = @ + 1])

processCommitsSkippingNoDate(commits, usernameFilter) ==
    processSkippingNoDate(commits, usernameFilter, 1, ZeroHist)

processFrom(commits, usernameFilter, i, hist) ==
    IF i > Len(commits) THEN hist
    ELSE LET commit == commits[i] IN
        IF commit.Commit = Nil \/ commit.Commit.Committer = Nil
        THEN processFrom(commits, usernameFilter, i + 1, hist)
        ELSE IF /\ usernameFilter # ""
                /\ GetName(commit.Commit.Committer) # usernameFilter
                /\ GetEmail(commit.Commit.Committer) # usernameFilter
        THEN processFrom(commits, usernameFilter, i + 1, hist)
        ELSE LET commitTime == GetDate(commit.Commit.Committer)
                 hour == Hour(commitTime)
             IN processFrom(commits, usernameFilter, i + 1,
                            [hist EXCEPT ![hour] = @ + 1])

\* processCommits(commits, usernameFilter)
processCommits(commits, usernameFilter) ==
    processFrom(commits, usernameFilter, 1, ZeroHist)

\* the bucket-by-bucket sum of two histograms
PlusHist(a, b) == [hour \in Hours |-> a[hour] + b[hour]]

\* hourlyCommits[hour] += repoHourlyCommits[hour], for hour 0..23
MergeHourly(total, repoHourlyCommits) ==
    [hour \in Hours |-> total[hour] + repoHourlyCommits[hour]]

RECURSIVE nonForks(_, _)
nonForks(page, i) ==
    IF i > Len(page) THEN <<>>
    ELSE IF ~page[i].Fork THEN <<page[i]>> \o nonForks(page, i + 1)
    ELSE nonForks(page, i + 1)

\* fetchUserRepos without the test of GetFork()
AppendAllRepos(allRepos, page) == allRepos \o page

\* the loop of fetchUserRepos that keeps the repositories with GetFork() false
AppendNonForks(allRepos, page) == allRepos \o nonForks(page, 1)

-----------------------------------------------------------------------------
(* The remote API. *)

\* the page the server serves for a requested page number: 0 (unset) is page 1
ServedPage(page) == IF page = 0 THEN 1 ELSE page

\* the records of the response to a request for page
PageRecords(listing, page) ==
    IF ServedPage(page) \in 1 .. Len(listing) THEN listing[ServedPage(page)] ELSE <<>>

\* resp.NextPage of the response to a request for page: 0 on the last page
NextPage(listing, page) ==
    IF ServedPage(page) < Len(listing) THEN ServedPage(page) + 1 ELSE 0

-----------------------------------------------------------------------------
(* The driver. *)

loopVars == <<argIdx, repos, repoIdx>>
fetchVars == <<caller, target, remote, optPage, all, reqs, ret>>
netVars == <<netCalls, failed, servedRepos, fetchedTotal, requested>>
chartVars == <<chart, renders>>

\* the default of the output flag
OutputFile == IF build = "main" THEN "graph.svg" ELSE "graph.png"

AggIdle == [pc |-> "idle"]

NoTargetYet == [owner |-> <<>>, repo |-> <<>>]

NoReturn == [val |-> <<>>, err |-> NoErr]

\* the locals of a fetch and its results go out of scope
EndFetch ==
    /\ caller' = "none"
    /\ target' = NoTargetYet
    /\ remote' = <<>>
    /\ optPage' = 0
    /\ all' = <<>>
    /\ reqs' = <<>>
    /\ ret' = NoReturn

Init ==
    /\ build \in {"main", "part_003"}
    /\ helpFlag \in BOOLEAN
    /\ userFilter \in RunFilters
    /\ repoFilter \in (IF build = "main" THEN RepoFilters ELSE {<<>>})
    /\ repoArgs \in SeqsUpTo(Tokens, MaxArgs)
    /\ token \in {"", "ghp_token"}
    /\ pc = "help"
    /\ exitStatus = Running
    /\ out = <<>>
    /\ hourlyCommits = ZeroHist
    /\ argIdx = 1
    /\ repos = <<>>
    /\ repoIdx = 1
    /\ caller = "none"
    /\ target = NoTargetYet
    /\ remote = <<>>
    /\ optPage = 0
    /\ all = <<>>
    /\ reqs = <<>>
    /\ ret = NoReturn
    /\ netCalls = 0
    /\ failed = FALSE
    /\ servedRepos = <<>>
    /\ fetchedTotal = ZeroHist
    /\ requested = {}
    /\ chart = NoChart
    /\ renders = 0
    /\ agg = AggIdle

\* os.Exit(status), also the exit at the end of main and of log.Fatal
Exit(status) ==
    /\ pc' = "exited"
    /\ exitStatus' = status

\* showUsage(): prints the usage text and exits with status 0
showUsage(printed) ==
    /\ out' = printed \o <<"usage">>
    /\ Exit(0)

\* log.Fatalf(msg): logs and exits with status 1
Fatalf(msg) ==
    /\ out' = Append(out, msg)
    /\ Exit(1)

\* main without the help check before the other checks
CheckHelpSkipped ==
    /\ pc = "help"
    /\ pc' = "usage"
    /\ UNCHANGED <<exitStatus, out>>
    /\ UNCHANGED <<inputs, hourlyCommits, loopVars, fetchVars, netVars,
                   chartVars, agg>>

\* if *helpFlag { showUsage() }
CheckHelp ==
    /\ pc = "help"
    /\ IF helpFlag THEN showUsage(out)
       ELSE /\ pc' = "usage"
            /\ UNCHANGED <<exitStatus, out>>
    /\ UNCHANGED <<inputs, hourlyCommits, loopVars, fetchVars, netVars,
                   chartVars, agg>>

\* main.go: no positional token, no --repo and no --user
NoTarget == Len(repoArgs) = 0 /\ repoFilter = <<>> /\ userFilter = ""

\* main.go: the check of the targets
CheckUsage ==
    /\ pc = "usage"
    /\ build = "main"
    /\ IF NoTarget THEN showUsage(Append(out, "Error: No repositories, username, or repo filter provided."))
       ELSE /\ pc' = "token"
            /\ UNCHANGED <<exitStatus, out>>
    /\ UNCHANGED <<inputs, hourlyCommits, loopVars, fetchVars, netVars,
                   chartVars, agg>>

\* part_003: the check of the targets
CheckUsageArgs ==
    /\ pc = "usage"
    /\ build = "part_003"
    /\ IF Len(repoArgs) = 0 THEN showUsage(Append(out, "Error: No repositories provided."))
       ELSE /\ pc' = "token"
            /\ UNCHANGED <<exitStatus, out>>
    /\ UNCHANGED <<inputs, hourlyCommits, loopVars, fetchVars, netVars,
                   chartVars, agg>>

\* the credential check that goes on with an empty token
CheckTokenIgnored ==
    /\ pc = "token"
    /\ pc' = IF repoFilter # <<>> THEN "repoFilter" ELSE "argLoop"
    /\ hourlyCommits' = ZeroHist
    /\ UNCHANGED <<exitStatus, out>>
    /\ UNCHANGED <<inputs, loopVars, fetchVars, netVars, chartVars, agg>>

\* the credential check, the client and the zeroed histogram
CheckToken ==
    /\ pc = "token"
    /\ IF token = ""
       THEN /\ Fatalf("Error: GITHUB_TOKEN environment variable is not set.")
            /\ UNCHANGED hourlyCommits
       ELSE /\ pc' = IF repoFilter # <<>> THEN "repoFilter" ELSE "argLoop"
            /\ hourlyCommits' = ZeroHist
            /\ UNCHANGED <<exitStatus, out>>
    /\ UNCHANGED <<inputs, loopVars, fetchVars, netVars, chartVars, agg>>

\* the call fetchCommits(client, owner, repo): the function's first lines
BeginFetchCommits(owner, repo, site) ==
    /\ pc' = "fetchCommits"
    /\ caller' = site
    /\ target' = [owner |-> owner, repo |-> repo]
    /\ remote' \in Listings(CommitPages)
    /\ optPage' = 0
    /\ all' = <<>>
    /\ reqs' = <<>>
    /\ UNCHANGED <<ret, exitStatus, out>>

\* the call fetchUserRepos(client, user): the function's first lines
BeginFetchUserRepos(user) ==
    /\ pc' = "fetchUserRepos"
    /\ caller' = "user"
    /\ target' = [owner |-> user, repo |-> <<>>]
    /\ remote' \in Listings(RepoPages)
    /\ optPage' = 0
    /\ all' = <<>>
    /\ reqs' = <<>>
    /\ UNCHANGED <<ret, exitStatus, out>>

\* main.go: the --repo branch up to its call of fetchCommits
RepoFilterTarget ==
    /\ pc = "repoFilter"
    /\ LET parts == Split(repoFilter) IN
       IF Len(parts) # 2
       THEN /\ Fatalf("Invalid repository format")
            /\ UNCHANGED fetchVars
       ELSE BeginFetchCommits(parts[1], parts[2], "repoFilter")
    /\ UNCHANGED <<inputs, hourlyCommits, loopVars, netVars, chartVars, agg>>

\* the loop head that rejects a token only when it splits into fewer than two
\* parts
ArgLoopLenient ==
    /\ pc = "argLoop"
    /\ IF argIdx > Len(repoArgs)
       THEN /\ pc' = "render"
            /\ UNCHANGED <<exitStatus, out, fetchVars, servedRepos>>
       ELSE LET repoArg == repoArgs[argIdx] IN
            IF Contains(repoArg)
            THEN LET parts == Split(repoArg) IN
                 /\ IF Len(parts) < 2
                    THEN /\ Fatalf("Invalid repository format")
                         /\ UNCHANGED fetchVars
                    ELSE BeginFetchCommits(parts[1], parts[2], "arg")
                 /\ UNCHANGED servedRepos
            ELSE /\ BeginFetchUserRepos(repoArg)
                 /\ servedRepos' = <<>>
    /\ UNCHANGED <<inputs, hourlyCommits, loopVars, netCalls, failed, fetchedTotal,
                   requested, chartVars, agg>>

\* one iteration head of the loop over the positional tokens
ArgLoop ==
    /\ pc = "argLoop"
    /\ IF argIdx > Len(repoArgs)
       THEN /\ pc' = "render"
            /\ UNCHANGED <<exitStatus, out, fetchVars, servedRepos>>
       ELSE LET repoArg == repoArgs[argIdx] IN
            IF Contains(repoArg)
            THEN LET parts == Split(repoArg) IN
                 /\ IF Len(parts) # 2
                    THEN /\ Fatalf("Invalid repository format")
                         /\ UNCHANGED fetchVars
                    ELSE BeginFetchCommits(parts[1], parts[2], "arg")
                 /\ UNCHANGED servedRepos
            ELSE /\ BeginFetchUserRepos(repoArg)
                 /\ servedRepos' = <<>>
    /\ UNCHANGED <<inputs, hourlyCommits, loopVars, netCalls, failed, fetchedTotal,
                   requested, chartVars, agg>>

\* fetchCommits that returns what it has accumulated when a request fails
ListCommitsPartial ==
    /\ pc = "fetchCommits"
    /\ build = "main"
    /\ netCalls' = netCalls + 1
    /\ requested' = IF caller = "repoFilter" THEN requested
                    ELSE requested \cup {argIdx}
    /\ reqs' = Append(reqs, optPage)
    /\ \E err \in {NoErr} \cup Errors :
        IF err # NoErr
        THEN /\ ret' = [val |-> all, err |-> err]
             /\ failed' = TRUE
             /\ pc' = "gotCommits"
             /\ UNCHANGED <<all, optPage, fetchedTotal>>
        ELSE LET commits == PageRecords(remote, optPage)
                 next == NextPage(remote, optPage)
             IN /\ all' = all \o commits
                /\ failed' = failed
                /\ IF next = 0
                   THEN /\ ret' = [val |-> all', err |-> NoErr]
                        /\ fetchedTotal' = PlusHist(fetchedTotal,
                                processCommits(all', userFilter))
                        /\ pc' = "gotCommits"
                        /\ UNCHANGED optPage
                   ELSE /\ optPage' = next
                        /\ UNCHANGED <<ret, pc, fetchedTotal>>
    /\ UNCHANGED <<inputs, exitStatus, out, hourlyCommits, loopVars, caller,
                   target, remote, servedRepos, chartVars, agg>>

\* main.go, fetchCommits: one iteration of the pagination loop, and the return
ListCommits ==
    /\ pc = "fetchCommits"
    /\ build = "main"
    /\ netCalls' = netCalls + 1
    /\ requested' = IF caller = "repoFilter" THEN requested
                    ELSE requested \cup {argIdx}
    /\ reqs' = Append(reqs, optPage)
    /\ \E err \in {NoErr} \cup Errors :
        IF err # NoErr
        THEN /\ ret' = [val |-> <<>>, err |-> err]
             /\ failed' = TRUE
             /\ pc' = "gotCommits"
             /\ UNCHANGED <<all, optPage, fetchedTotal>>
        ELSE LET commits == PageRecords(remote, optPage)
                 next == NextPage(remote, optPage)
             IN /\ all' = all \o commits
                /\ failed' = failed
                /\ IF next = 0
                   THEN /\ ret' = [val |-> all', err |-> NoErr]
                        /\ fetchedTotal' = PlusHist(fetchedTotal,
                                processCommits(all', userFilter))
                        /\ pc' = "gotCommits"
                        /\ UNCHANGED optPage
                   ELSE /\ optPage' = next
                        /\ UNCHANGED <<ret, pc, fetchedTotal>>
    /\ UNCHANGED <<inputs, exitStatus, out, hourlyCommits, loopVars, caller,
                   target, remote, servedRepos, chartVars, agg>>

\* part_003, fetchCommits: one request with no options, and the return
ListCommitsOnce ==
    /\ pc = "fetchCommits"
    /\ build = "part_003"
    /\ netCalls' = netCalls + 1
    /\ requested' = IF caller = "repoFilter" THEN requested
                    ELSE requested \cup {argIdx}
    /\ reqs' = Append(reqs, 0)
    /\ \E err \in {NoErr} \cup Errors :
        IF err # NoErr
        THEN /\ ret' = [val |-> <<>>, err |-> err]
             /\ failed' = TRUE
             /\ UNCHANGED <<all, fetchedTotal>>
        ELSE /\ all' = PageRecords(remote, 0)
             /\ ret' = [val |-> all', err |-> NoErr]
             /\ fetchedTotal' = PlusHist(fetchedTotal,
                                         processCommits(all', userFilter))
             /\ failed' = failed
    /\ pc' = "gotCommits"
    /\ UNCHANGED <<inputs, exitStatus, out, hourlyCommits, loopVars, caller,
                   target, remote, optPage, servedRepos, chartVars, agg>>

\* main.go, fetchUserRepos: one iteration of the pagination loop, and the return
ListRepos ==
    /\ pc = "fetchUserRepos"
    /\ build = "main"
    /\ netCalls' = netCalls + 1
    /\ requested' = IF caller = "repoFilter" THEN requested
                    ELSE requested \cup {argIdx}
    /\ reqs' = Append(reqs, optPage)
    /\ \E err \in {NoErr} \cup Errors :
        IF err # NoErr
        THEN /\ ret' = [val |-> <<>>, err |-> err]
             /\ failed' = TRUE
             /\ pc' = "gotRepos"
             /\ UNCHANGED <<all, optPage, servedRepos>>
        ELSE LET page == PageRecords(remote, optPage)
                 next == NextPage(remote, optPage)
             IN /\ all' = AppendNonForks(all, page)
                /\ servedRepos' = servedRepos \o page
                /\ failed' = failed
                /\ IF next = 0
                   THEN /\ ret' = [val |-> all', err |-> NoErr]
                        /\ pc' = "gotRepos"
                        /\ UNCHANGED optPage
                   ELSE /\ optPage' = next
                        /\ UNCHANGED <<ret, pc>>
    /\ UNCHANGED <<inputs, exitStatus, out, hourlyCommits, loopVars, caller,
                   target, remote, fetchedTotal, chartVars, agg>>

\* part_003, fetchUserRepos: one request, the fork filter, and the return
ListReposOnce ==
    /\ pc = "fetchUserRepos"
    /\ build = "part_003"
    /\ netCalls' = netCalls + 1
    /\ requested' = IF caller = "repoFilter" THEN requested
                    ELSE requested \cup {argIdx}
    /\ reqs' = Append(reqs, 0)
    /\ \E err \in {NoErr} \cup Errors :
        IF err # NoErr
        THEN /\ ret' = [val |-> <<>>, err |-> err]
             /\ failed' = TRUE
             /\ UNCHANGED <<all, servedRepos>>
        ELSE LET page == PageRecords(remote, 0) IN
             /\ all' = AppendNonForks(<<>>, page)
             /\ servedRepos' = servedRepos \o page
             /\ ret' = [val |-> all', err |-> NoErr]
             /\ failed' = failed
    /\ pc' = "gotRepos"
    /\ UNCHANGED <<inputs, exitStatus, out, hourlyCommits, loopVars, caller,
                   target, remote, optPage, fetchedTotal, chartVars, agg>>

\* main with the loop over the positional tokens after the --repo branch
\* in place of in its else branch
AfterFetchCommitsThenArgs ==
    /\ pc = "gotCommits"
    /\ IF ret.err # NoErr
       THEN /\ Fatalf(<<"Error fetching commits from", target, ret.err>>)
            /\ UNCHANGED <<hourlyCommits, loopVars, fetchVars>>
       ELSE LET repoHourlyCommits == processCommits(ret.val, userFilter) IN
            /\ hourlyCommits' = MergeHourly(hourlyCommits, repoHourlyCommits)
            /\ pc' = CASE caller = "repoFilter" -> "argLoop"
                       [] caller = "arg" -> "argLoop"
                       [] OTHER -> "repoLoop"
            /\ argIdx' = IF caller = "arg" THEN argIdx + 1 ELSE argIdx
            /\ repoIdx' = IF caller = "enum" THEN repoIdx + 1 ELSE repoIdx
            /\ EndFetch
            /\ UNCHANGED <<repos, exitStatus, out>>
    /\ UNCHANGED <<inputs, netVars, chartVars, agg>>

\* main with hourlyCommits[hour] = repoHourlyCommits[hour] in place of +=
AfterFetchCommitsOverwriting ==
    /\ pc = "gotCommits"
    /\ IF ret.err # NoErr
       THEN /\ Fatalf(<<"Error fetching commits from", target, ret.err>>)
            /\ UNCHANGED <<hourlyCommits, loopVars, fetchVars>>
       ELSE LET repoHourlyCommits == processCommits(ret.val, userFilter) IN
            /\ hourlyCommits' = repoHourlyCommits
            /\ pc' = CASE caller = "repoFilter" -> "render"
                       [] caller = "arg" -> "argLoop"
                       [] OTHER -> "repoLoop"
            /\ argIdx' = IF caller = "arg" THEN argIdx + 1 ELSE argIdx
            /\ repoIdx' = IF caller = "enum" THEN repoIdx + 1 ELSE repoIdx
            /\ EndFetch
            /\ UNCHANGED <<repos, exitStatus, out>>
    /\ UNCHANGED <<inputs, netVars, chartVars, agg>>

\* main that logs a failed fetch and goes on with the next target
AfterFetchCommitsSkipping ==
    /\ pc = "gotCommits"
    /\ LET repoHourlyCommits == processCommits(ret.val, userFilter) IN
       /\ hourlyCommits' = MergeHourly(hourlyCommits, repoHourlyCommits)
       /\ pc' = CASE caller = "repoFilter" -> "render"
                  [] caller = "arg" -> "argLoop"
                  [] OTHER -> "repoLoop"
       /\ argIdx' = IF caller = "arg" THEN argIdx + 1 ELSE argIdx
       /\ repoIdx' = IF caller = "enum" THEN repoIdx + 1 ELSE repoIdx
       /\ EndFetch
       /\ UNCHANGED <<repos, exitStatus, out>>
    /\ UNCHANGED <<inputs, netVars, chartVars, agg>>

\* main after fetchCommits returned, at each of its three call sites: the
\* fatal error, or processCommits and the merge into the running histogram
AfterFetchCommits ==
    /\ pc = "gotCommits"
    /\ IF ret.err # NoErr
       THEN /\ Fatalf(<<"Error fetching commits from", target, ret.err>>)
            /\ UNCHANGED <<hourlyCommits, loopVars, fetchVars>>
       ELSE LET repoHourlyCommits == processCommits(ret.val, userFilter) IN
            /\ hourlyCommits' = MergeHourly(hourlyCommits, repoHourlyCommits)
            /\ pc' = CASE caller = "repoFilter" -> "render"
                       [] caller = "arg" -> "argLoop"
                       [] OTHER -> "repoLoop"
            /\ argIdx' = IF caller = "arg" THEN argIdx + 1 ELSE argIdx
            /\ repoIdx' = IF caller = "enum" THEN repoIdx + 1 ELSE repoIdx
            /\ EndFetch
            /\ UNCHANGED <<repos, exitStatus, out>>
    /\ UNCHANGED <<inputs, netVars, chartVars, agg>>

\* main after fetchUserRepos returned: the fatal error, or the loop over repos
AfterFetchUserRepos ==
    /\ pc = "gotRepos"
    /\ IF ret.err # NoErr
       THEN /\ Fatalf(<<"Error fetching repos for user", target, ret.err>>)
            /\ UNCHANGED <<loopVars, fetchVars>>
       ELSE /\ repos' = ret.val
            /\ repoIdx' = 1
            /\ pc' = "repoLoop"
            /\ EndFetch
            /\ UNCHANGED <<argIdx, exitStatus, out>>
    /\ UNCHANGED <<inputs, hourlyCommits, netVars, chartVars, agg>>

\* one iteration head of the loop over the repositories of an account
RepoLoop ==
    /\ pc = "repoLoop"
    /\ IF repoIdx > Len(repos)
       THEN /\ pc' = "argLoop"
            /\ argIdx' = argIdx + 1
            /\ UNCHANGED <<exitStatus, out, fetchVars>>
       ELSE /\ BeginFetchCommits(repoArgs[argIdx], repos[repoIdx].Name, "enum")
            /\ UNCHANGED argIdx
    /\ UNCHANGED <<inputs, hourlyCommits, repos, repoIdx, netVars, chartVars,
                   agg>>

\* the title generateGraph gives the chart
Title ==
    IF build = "part_003" THEN "GitHub Commits by Hour"
    ELSE IF userFilter # "" THEN "GitHub Commits by Hour for user"
    ELSE IF repoFilter # <<>> THEN "GitHub Commits by Hour for Repos under"
    ELSE "GitHub Commits by Hour"

\* generateGraph(hourlyCommits, outputFile, ...) and the end of main: the file
\* cannot be created, or is created and its writing fails, or it is written
Render ==
    /\ pc = "render"
    /\ renders' = renders + 1
    /\ \E outcome \in {"create fails", "write fails", "saved"} :
        CASE outcome = "create fails" ->
                /\ Fatalf("Error generating graph")
                /\ UNCHANGED chart
          [] outcome = "write fails" ->
                /\ Fatalf("Error generating graph")
                /\ chart' = [file |-> OutputFile, title |-> Title,
                             values |-> ZeroHist, complete |-> FALSE]
          [] OTHER ->
                /\ chart' = [file |-> OutputFile, title |-> Title,
                             values |-> hourlyCommits, complete |-> TRUE]
                /\ out' = Append(out, "Graph saved")
                /\ Exit(0)
    /\ UNCHANGED <<inputs, hourlyCommits, loopVars, fetchVars, netVars, agg>>

Next ==
    \/ CheckHelp
    \/ CheckUsage
    \/ CheckUsageArgs
    \/ CheckToken
    \/ RepoFilterTarget
    \/ ArgLoop
    \/ ListCommits
    \/ ListCommitsOnce
    \/ ListRepos
    \/ ListReposOnce
    \/ AfterFetchCommits
    \/ AfterFetchUserRepos
    \/ RepoLoop
    \/ Render

Spec == Init /\ [][Next]_vars

-----------------------------------------------------------------------------
(* The aggregator on its own: processCommits applied to two commit sequences *)
(* A and B and to A ++ B under one filter, and the driver's merge of the     *)
(* two histograms in either order.                                           *)

InitAgg ==
    /\ build = "main"
    /\ helpFlag = FALSE
    /\ userFilter = ""
    /\ repoFilter = <<>>
    /\ repoArgs = <<>>
    /\ token = ""
    /\ pc = "none"
    /\ exitStatus = Running
    /\ out = <<>>
    /\ hourlyCommits = ZeroHist
    /\ argIdx = 1
    /\ repos = <<>>
    /\ repoIdx = 1
    /\ caller = "none"
    /\ target = NoTargetYet
    /\ remote = <<>>
    /\ optPage = 0
    /\ all = <<>>
    /\ reqs = <<>>
    /\ ret = NoReturn
    /\ netCalls = 0
    /\ failed = FALSE
    /\ servedRepos = <<>>
    /\ fetchedTotal = ZeroHist
    /\ requested = {}
    /\ chart = NoChart
    /\ renders = 0
    /\ \E A \in SeqsUpTo(Commits, MaxLen), B \in SeqsUpTo(Commits, MaxLen),
          f \in Filters :
        agg = [pc |-> "start", A |-> A, B |-> B, f |-> f,
               hA |-> ZeroHist, hB |-> ZeroHist, hAB |-> ZeroHist,
               sumAB |-> ZeroHist, sumBA |-> ZeroHist]

driverVars == <<build, helpFlag, userFilter, repoFilter, repoArgs, token, pc,
                exitStatus, out, hourlyCommits, argIdx, repos, repoIdx,
                caller, target, remote, optPage, all, reqs, ret, netCalls,
                failed, servedRepos, fetchedTotal, requested, chart,
                renders>>

\* processCommits(A, f) and processCommits(B, f)
Aggregate ==
    /\ agg.pc = "start"
    /\ agg' = [agg EXCEPT !.pc = "each",
                          !.hA = processCommits(agg.A, agg.f),
                          !.hB = processCommits(agg.B, agg.f)]
    /\ UNCHANGED driverVars

\* processCommits(A ++ B, f)
AggregateConcat ==
    /\ agg.pc = "each"
    /\ agg' = [agg EXCEPT !.pc = "concat",
                          !.hAB = processCommits(agg.A \o agg.B, agg.f)]
    /\ UNCHANGED driverVars

\* the driver's merge of the two histograms into a zeroed total, A's first and
\* B's first
MergeBoth ==
    /\ agg.pc = "concat"
    /\ agg' = [agg EXCEPT !.pc = "done",
                          !.sumAB = MergeHourly(MergeHourly(ZeroHist, agg.hA), agg.hB),
                          !.sumBA = MergeHourly(MergeHourly(ZeroHist, agg.hB), agg.hA)]
    /\ UNCHANGED driverVars

NextAgg ==
    \/ Aggregate
    \/ AggregateConcat
    \/ MergeBoth

SpecAgg == InitAgg /\ [][NextAgg]_vars

-----------------------------------------------------------------------------
(* Helpers of the properties. *)

RECURSIVE SumUpTo(_, _)
SumUpTo(hist, hour) ==
    IF hour < 0 THEN 0 ELSE hist[hour] + SumUpTo(hist, hour - 1)

\* the total of the 24 buckets
Total(hist) == SumUpTo(hist, 23)

\* Commit and Commit.Committer are both non-nil
HasCommitter(commit) == commit.Commit # Nil /\ commit.Commit.Committer # Nil

\* the positions of a commit sequence that satisfy P
Positions(commits, P(_)) == {i \in 1 .. Len(commits) : P(commits[i])}

RECURSIVE Flatten(_, _)
Flatten(listing, i) ==
    IF i > Len(listing) THEN <<>> ELSE listing[i] \o Flatten(listing, i + 1)

\* the records of all the pages of a listing, in page order
AllRecords(listing) == Flatten(listing, 1)

IsFork(repo) == repo.Fork

IsNotFork(repo) == ~repo.Fork

-----------------------------------------------------------------------------
(* Properties of the aggregator (specification SpecAgg). *)

\* the hour a commit with committer metadata is counted in
HourOf(commit) == Hour(GetDate(commit.Commit.Committer))

\* the commit passes the identity filter f
Matches(commit, f) ==
    \/ f = ""
    \/ GetName(commit.Commit.Committer) = f
    \/ GetEmail(commit.Commit.Committer) = f

\* C2: with no filter the 24 buckets of processCommits(commits, "") sum to the
\* number of commits that have committer metadata; a commit without committer
\* metadata adds nothing to any bucket, whatever the filter.
C2_TotalIsCommitterCount ==
    agg.pc = "done" =>
        /\ agg.f = "" =>
            /\ Total(agg.hA) = Cardinality(Positions(agg.A, HasCommitter))
            /\ Total(agg.hAB) = Cardinality(Positions(agg.A \o agg.B, HasCommitter))
        /\ \A h \in Hours :
            agg.hA[h] <= Cardinality({i \in Positions(agg.A, HasCommitter) :
                                        HourOf(agg.A[i]) = h})
        /\ Positions(agg.A, HasCommitter) = {} => agg.hA = ZeroHist

C2_Witness ==
    /\ agg.pc = "done"
    /\ agg.f = ""
    /\ agg.A = <<cNoCommit, cNoCommitter>>
    /\ Len(agg.B) = 2
    /\ Total(agg.hAB) = 2

\* C3: the element-wise sum of processCommits(A, f) and processCommits(B, f)
\* is processCommits(A ++ B, f), and it is the same in either order.
C3_MergeIsConcat ==
    agg.pc = "done" =>
        /\ agg.sumAB = agg.hAB
        /\ agg.sumAB = agg.sumBA

C3_Witness ==
    /\ agg.pc = "done"
    /\ agg.f # ""
    /\ \E h \in Hours : agg.hA[h] > 0 /\ agg.hB[h] > 0
    /\ \E h \in Hours : agg.hA[h] # agg.hB[h]

\* C4: a commit with committer metadata is counted if and only if the filter
\* is empty or equals its committer name or its committer email, exactly.
C4_FilterNameOrEmail ==
    agg.pc = "done" =>
        \A h \in Hours :
            agg.hA[h] = Cardinality({i \in Positions(agg.A, HasCommitter) :
                                        /\ Matches(agg.A[i], agg.f)
                                        /\ HourOf(agg.A[i]) = h})

C4_Witness ==
    /\ agg.pc = "done"
    /\ agg.f = "alice@example.com"
    /\ agg.A = <<cAlice, cBob>>
    /\ agg.B = <<cUpper, cNoDate>>
    /\ Total(agg.hA) = 1
    /\ Total(agg.hB) = 0

-----------------------------------------------------------------------------
(* Properties of the fetchers and the driver (specification Spec). *)

\* a fetch has returned to main
Returned == pc \in {"gotCommits", "gotRepos"}

\* a fetch is between two of its requests
Fetching == pc \in {"fetchCommits", "fetchUserRepos"}

\* the run supplies a target as the build's usage check sees it
TargetGiven == IF build = "main" THEN ~NoTarget ELSE Len(repoArgs) > 0

\* C1: a fetch of a listing of N pages requests the pages in order, each one
\* the page named by the previous response's NextPage, stops exactly at the
\* response with NextPage = 0, and returns the records of all N pages in page
\* order (for fetchUserRepos: the records before the fork filter).
C1_AllPagesFetched ==
    /\ (Returned /\ ret.err = NoErr) =>
        /\ Len(reqs) = Len(remote)
        /\ \A i \in 1 .. Len(reqs) : ServedPage(reqs[i]) = i
        /\ \A i \in 2 .. Len(reqs) : reqs[i] = NextPage(remote, reqs[i - 1])
        /\ NextPage(remote, reqs[Len(reqs)]) = 0
        /\ pc = "gotCommits" => ret.val = AllRecords(remote)
        /\ pc = "gotRepos" => servedRepos = AllRecords(remote)
    /\ (Fetching /\ reqs # <<>>) => NextPage(remote, reqs[Len(reqs)]) # 0

\* C5: the list fetchUserRepos returns holds exactly the non-fork
\* repositories of the pages the API returned, in order, and no commit fetch
\* of an account's enumeration is for a repository the API flagged as a fork.
C5_NoForkTargets ==
    /\ (pc = "gotRepos" /\ ret.err = NoErr) =>
            ret.val = SelectSeq(servedRepos, IsNotFork)
    /\ pc = "repoLoop" => repos = SelectSeq(servedRepos, IsNotFork)
    /\ \A i \in 1 .. Len(repos) : ~repos[i].Fork
    /\ caller = "enum" =>
            \A i \in 1 .. Len(servedRepos) :
                servedRepos[i].Fork => servedRepos[i].Name # target.repo

C5_Witness ==
    /\ pc = "fetchCommits"
    /\ caller = "enum"
    /\ servedRepos = <<fOne, rOne, fTwo>>
    /\ target.repo = rOne.Name
    /\ reqs = <<0>>

\* C6: once a request of a commit fetch or of an enumeration has failed, the
\* run's only step is the exit with status 1: no chart is written, the
\* renderer is not entered and no further request is issued.
C6_FailFast ==
    /\ [](failed =>
            /\ chart = NoChart
            /\ renders = 0
            /\ Returned \/ pc = "exited"
            /\ pc = "exited" => exitStatus = 1)
    /\ [][failed =>
            /\ pc' = "exited"
            /\ exitStatus' = 1
            /\ netCalls' = netCalls
            /\ chart' = NoChart
            /\ renders' = 0]_vars

C6_Witness ==
    /\ pc = "exited"
    /\ failed
    /\ exitStatus = 1
    /\ argIdx = 2
    /\ caller = "enum"
    /\ hourlyCommits # ZeroHist
    /\ chart = NoChart

\* C7: when the request for a page fails, the fetch returns the API's error
\* as it is and a nil result, though pages before it were accumulated; no
\* page was requested twice and no request follows.
C7_ErrorAbortsFetch ==
    /\ []((Returned /\ ret.err # NoErr) =>
            /\ ret.val = <<>>
            /\ ret.err \in Errors
            /\ \A i, j \in 1 .. Len(reqs) : reqs[i] = reqs[j] => i = j
            /\ \A i \in 1 .. Len(reqs) : ServedPage(reqs[i]) = i)
    /\ [][ret.err # NoErr => reqs' = reqs /\ netCalls' = netCalls]_vars

C7_Witness ==
    /\ pc = "gotCommits"
    /\ ret.err # NoErr
    /\ ret.val = <<>>
    /\ all # <<>>
    /\ Len(reqs) = 2

\* C8 as stated: with GITHUB_TOKEN absent or empty, whatever the arguments,
\* the process exits with a non-zero status, issues no request and writes no
\* chart.
C8_NoTokenExitsNonZero ==
    token = "" =>
        /\ netCalls = 0
        /\ chart = NoChart
        /\ pc = "exited" => exitStatus # 0

\* C8, amended: with GITHUB_TOKEN absent or empty the process issues no
\* request and writes no chart, whatever the arguments; it exits with status 1
\* when the run gets to the credential check (no -h/--help and a target
\* supplied), and with status 0 under -h/--help.
C8_NoTokenNoNetwork ==
    token = "" =>
        /\ netCalls = 0
        /\ chart = NoChart
        /\ renders = 0
        /\ pc \in {"help", "usage", "token", "exited"}
        /\ (pc = "exited" /\ ~helpFlag /\ TargetGiven) => exitStatus = 1
        /\ (pc = "exited" /\ helpFlag) => exitStatus = 0

C8_Witness ==
    /\ token = ""
    /\ pc = "exited"
    /\ exitStatus = 1
    /\ ~helpFlag
    /\ Len(repoArgs) = 2
    /\ netCalls = 0

\* C9: with no positional argument, no --repo and no --user the run ends as a
\* usage error: the process exits with a non-zero status, before any request.
C9_NoTargetExitsNonZero ==
    (pc = "exited" /\ ~helpFlag /\ NoTarget) =>
        /\ exitStatus # 0
        /\ netCalls = 0

\* C10: the renderer is entered only in a run that has a --repo value or a
\* positional token; a run with neither (no -h/--help, the credential set)
\* ends with the usage text, whatever its other options.
C10_RenderNeedsTarget ==
    /\ renders > 0 => (Len(repoArgs) > 0 \/ repoFilter # <<>>)
    /\ (pc = "exited" /\ ~helpFlag /\ token # "" /\ Len(repoArgs) = 0
            /\ repoFilter = <<>>) =>
            /\ chart = NoChart
            /\ out # <<>> /\ out[Len(out)] = "usage"


\* C11: under -h/--help, whatever the other arguments and the credential, the
\* process prints the usage text and nothing else and exits with status 0,
\* without reaching the target check, the credential check, a request or the
\* renderer.
C11_HelpExitsZeroFirst ==
    helpFlag =>
        /\ pc \in {"help", "exited"}
        /\ netCalls = 0
        /\ renders = 0
        /\ chart = NoChart
        /\ pc = "help" => out = <<>>
        /\ pc = "exited" => (exitStatus = 0 /\ out = <<"usage">>)

C11_Witness ==
    /\ helpFlag
    /\ pc = "exited"
    /\ exitStatus = 0
    /\ token = ""
    /\ repoArgs = <<sThree>>
    /\ repoFilter = sUser


\* C12: a run that gets past the help and target checks and exits with
\* status 0 has entered the renderer exactly once, after the fetch of the
\* last target returned, and the chart holds, bucket by bucket, the sum of
\* processCommits(commits, userFilter) over every commit list fetched.
C12_RenderOnceWithTotal ==
    /\ renders <= 1
    /\ pc = "render" =>
        /\ hourlyCommits = fetchedTotal
        /\ caller = "none"
        /\ repoFilter # <<>> \/ argIdx = Len(repoArgs) + 1
    /\ renders = 1 => (pc = "exited" /\ ~failed)
    /\ (pc = "exited" /\ exitStatus = 0 /\ ~helpFlag /\ TargetGiven) =>
        /\ renders = 1
        /\ chart # NoChart
        /\ chart.complete
        /\ chart.values = fetchedTotal

C12_Witness ==
    /\ pc = "exited"
    /\ exitStatus = 0
    /\ repoArgs = <<sUser, sOwnerRepo>>
    /\ renders = 1
    /\ chart # NoChart
    /\ chart.values = fetchedTotal
    /\ Total(chart.values) >= 5


\* C13: the running histogram always has exactly the 24 buckets 0..23, each a
\* non-negative integer; no step decreases a bucket; and the bucket index
\* computed for each counted commit of a fetched list is within 0..23.
C13_HistogramShape ==
    /\ [](/\ DOMAIN hourlyCommits = Hours
          /\ \A h \in Hours : hourlyCommits[h] \in Nat
          /\ pc = "gotCommits" =>
                \A i \in Positions(ret.val, HasCommitter) :
                    HourOf(ret.val[i]) \in Hours)
    /\ [][\A h \in Hours : hourlyCommits'[h] >= hourlyCommits[h]]_vars

C13_Witness ==
    /\ pc = "gotCommits"
    /\ ret.val = <<cAlice, cNoCommitter, cBob>>
    /\ hourlyCommits # ZeroHist
    /\ hourlyCommits[1] > 0
    /\ Len(repoArgs) = 2


\* C14: in a run with a non-empty --repo the loop over the positional tokens is
\* never entered and no account is enumerated; the only commit fetch is the
\* one for the owner and repository --repo splits into, begun once, before
\* any request; the histogram that reaches the chart is that fetch's alone;
\* and "Invalid repository format" is reported only for --repo itself.
C14_RepoFilterOnly ==
    /\ [](repoFilter # <<>> =>
            /\ pc \notin {"argLoop", "fetchUserRepos", "gotRepos", "repoLoop"}
            /\ argIdx = 1 /\ repos = <<>> /\ repoIdx = 1 /\ servedRepos = <<>>
            /\ caller \in {"none", "repoFilter"}
            /\ caller = "repoFilter" =>
                  /\ Len(Split(repoFilter)) = 2
                  /\ target = [owner |-> Split(repoFilter)[1],
                               repo |-> Split(repoFilter)[2]]
            /\ pc = "gotCommits" /\ ret.err = NoErr =>
                  fetchedTotal = processCommits(ret.val, userFilter)
            /\ pc = "render" => (netCalls >= 1 /\ hourlyCommits = fetchedTotal)
            /\ (\E i \in 1..Len(out) : out[i] = "Invalid repository format") =>
                  (Len(Split(repoFilter)) # 2 /\ netCalls = 0))
    /\ [][(repoFilter # <<>> /\ pc # "fetchCommits" /\ pc' = "fetchCommits") =>
              (pc = "repoFilter" /\ netCalls = 0)]_vars

C14_Witness ==
    /\ repoFilter = sOwnerRepo
    /\ repoArgs = <<sThree, sUser>>
    /\ pc = "exited"
    /\ exitStatus = 0
    /\ chart # NoChart
    /\ Total(chart.values) > 0


\* the positions of commits that have committer metadata, pass the filter f
\* and have no committer timestamp
Undated(commits, f) ==
    {i \in Positions(commits, HasCommitter) :
        /\ commits[i].Commit.Committer.Date = Nil
        /\ Matches(commits[i], f)}

\* the positions of commits that have committer metadata, pass the filter f
\* and have a committer timestamp whose hour of day is hour
MadeInHour(commits, f, hour) ==
    {i \in Positions(commits, HasCommitter) :
        /\ commits[i].Commit.Committer.Date # Nil
        /\ Hour(commits[i].Commit.Committer.Date) = hour
        /\ Matches(commits[i], f)}

\* C15: a commit with committer metadata and no committer timestamp that
\* passes the filter is counted, in bucket 0: bucket 0 of processCommits(A, f)
\* is the number of commits of A made in hour 0 plus the number of such
\* undated commits, and every other bucket holds only commits made in its hour.
C15_UndatedCountedInBucketZero ==
    agg.pc # "start" =>
        /\ agg.hA[0] = Cardinality(MadeInHour(agg.A, agg.f, 0))
                        + Cardinality(Undated(agg.A, agg.f))
        /\ \A hour \in Hours \ {0} :
              agg.hA[hour] = Cardinality(MadeInHour(agg.A, agg.f, hour))

C15_Witness ==
    /\ agg.pc = "done"
    /\ agg.A = <<cNoDate, cAlice>>
    /\ agg.f = "alice"
    /\ agg.hA[0] = 1
    /\ agg.hA[9] = 1
    /\ agg.hA[0] > Cardinality(MadeInHour(agg.A, agg.f, 0))


\* the token contains "/" and does not split into exactly two parts
Malformed(tok) == Contains(tok) /\ Len(Split(tok)) # 2

\* the run has ended on the report of a malformed repository
InvalidFormatExit ==
    /\ pc = "exited"
    /\ Len(out) > 0
    /\ out[Len(out)] = "Invalid repository format"

\* C16: in a run without --repo the positional tokens are visited one by one
\* in command-line order; API requests have been issued for every token before
\* the current one and for none after it, and never for a malformed token; a
\* token with "/" is fetched as the owner and repository it splits into, empty
\* or not; the run reports a malformed token only when the loop is at it, with
\* exit status 1, every earlier token requested and no chart; and the chart is
\* never reached when some token is malformed.
C16_MalformedTokenInOrder ==
    /\ [](repoFilter = <<>> =>
            /\ argIdx \in 1 .. Len(repoArgs) + 1
            /\ 1 .. (argIdx - 1) \subseteq requested
            /\ requested \subseteq 1 .. argIdx
            /\ requested \subseteq 1 .. Len(repoArgs)
            /\ \A j \in requested : ~Malformed(repoArgs[j])
            /\ netCalls >= Cardinality(requested)
            /\ caller = "arg" =>
                  /\ Len(Split(repoArgs[argIdx])) = 2
                  /\ target = [owner |-> Split(repoArgs[argIdx])[1],
                               repo |-> Split(repoArgs[argIdx])[2]]
            /\ caller \in {"user", "enum"} =>
                  (~Contains(repoArgs[argIdx]) /\ target.owner = repoArgs[argIdx])
            /\ InvalidFormatExit =>
                  /\ exitStatus = 1
                  /\ argIdx <= Len(repoArgs)
                  /\ Malformed(repoArgs[argIdx])
                  /\ requested = 1 .. (argIdx - 1)
                  /\ chart = NoChart /\ renders = 0 /\ ~failed
            /\ (pc = "render" \/ renders > 0) =>
                  \A j \in 1 .. Len(repoArgs) : ~Malformed(repoArgs[j]))
    /\ [][argIdx' = argIdx \/ argIdx' = argIdx + 1]_vars

C16_Witness ==
    /\ repoFilter = <<>>
    /\ repoArgs = <<sSlash, sThree>>
    /\ InvalidFormatExit
    /\ exitStatus = 1
    /\ argIdx = 2
    /\ requested = {1}
    /\ netCalls >= 1
    /\ hourlyCommits # ZeroHist

====
